---- MODULE Spec2Model ----
(***************************************************************************)
(* NodeNormalization: compendium ingestion (load_compendium.py), the      *)
(* merge of the per-file prefix statistics, and the read paths of          *)
(* server.py (get_normalized_nodes, get_semantic_types, get_curie_prefixes)*)
(*                                                                         *)
(* An identifier (CURIE) is a sequence of one-character strings, so that   *)
(* str.upper() and str.split(":") are computed, not assumed.               *)
(***************************************************************************)
EXTENDS Integers, Sequences, FiniteSets, TLC

\* ---------------------------------------------------------------- bounds
MaxLines == 2       \* longest compendium file, in lines
MaxBlock == 2       \* block sizes 1..MaxBlock
MaxCuries == 3      \* longest list of curies in one request
MaxFiles == 2       \* most compendium files given to one run of load
MaxMerges == 2      \* runs of merge_semantic_meta_data

\* ---------------------------------------------------------------- values
\* Python's None / a value that is present: <<>> and <<v>>
None == <<>>
Some(v) == <<v>>

Range(s) == {s[k] : k \in 1..Len(s)}

\* partial maps (a redis database, a Python dict) are functions on their keys
EmptyMap == <<>>
Put(m, k, v) == [x \in (DOMAIN m) \cup {k} |-> IF x = k THEN v ELSE m[x]]
Get(m, k) == IF k \in DOMAIN m THEN Some(m[k]) ELSE None
Values(m) == {m[k] : k \in DOMAIN m}

\* ---------------------------------------------------------------- strings
\* an upper() that knows fewer letters
upper_char_partial(c) ==
  CASE c = "m" -> "M"
    [] c = "u" -> "U"
    [] OTHER -> c

\* str.upper(), character by character
upper_char(c) ==
  CASE c = "m" -> "M"
    [] c = "d" -> "D"
    [] c = "u" -> "U"
    [] OTHER -> c

upper(s) == [k \in 1..Len(s) |-> upper_char(s[k])]

lower_char(c) ==
  CASE c = "M" -> "m"
    [] c = "D" -> "d"
    [] c = "U" -> "u"
    [] OTHER -> c

lower(s) == [k \in 1..Len(s) |-> lower_char(s[k])]

\* s.split(":")[0] : the characters before the first ':' (all of s if none)
split_colon_0(s) ==
  IF \E k \in 1..Len(s) : s[k] = ":"
  THEN LET c == CHOOSE k \in 1..Len(s) :
                  s[k] = ":" /\ \A j \in 1..(k - 1) : s[j] # ":"
       IN SubSeq(s, 1, c - 1)
  ELSE s

\* json.dumps / json.loads: the store holds text, not Python objects
\* (a text is either the serialisation of a value or not JSON at all)
json_dumps(v) == [wellformed |-> TRUE, value |-> Some(v)]
json_loads_raises(t) == ~t.wellformed
json_loads(t) == t.value[1]

\* ---------------------------------------------------------------- inputs
\* identifiers as they are written in compendium files
MONDO == <<"M", ":", "1">>
DOID == <<"D", ":", "2">>
doid == <<"d", ":", "2">>
UNKNOWN == <<"U", ":", "9">>

Disease == "biolink:Disease"
Cell == "biolink:Cell"
NamedThing == "biolink:NamedThing"

\* instance["identifiers"] entries: {"i": curie} or {"i": curie, "l": label}
Ident(c) == [i |-> c, l |-> None]
Labelled(c, lbl) == [i |-> c, l |-> Some(lbl)]

\* parsed lines of a compendium file ("ic" is optional)
Instances ==
  { [type |-> Disease, ic |-> None, identifiers |-> <<Ident(MONDO), Ident(DOID)>>],
    [type |-> Cell, ic |-> Some("100"),
     identifiers |-> <<Labelled(MONDO, "asthma"), Ident(doid)>>],
    [type |-> Disease, ic |-> None, identifiers |-> <<Labelled(doid, "flu")>>] }

Garbage == [wellformed |-> FALSE, value |-> None]

Lines == {json_dumps(r) : r \in Instances} \cup {Garbage}

RECURSIVE SeqsUpTo(_, _)
SeqsUpTo(S, n) ==
  IF n = 0 THEN {<<>>}
  ELSE LET prev == SeqsUpTo(S, n - 1)
       IN prev \cup {Append(s, x) : s \in {p \in prev : Len(p) = n - 1}, x \in S}

Files == SeqsUpTo(Lines, MaxLines)

\* ---------------------------------------------------------------- store
\* the redis databases, named as the connections of load_compendium.py
Databases ==
  {"eq_id_to_id_db", "id_to_eqids_db", "id_to_type_db", "info_content_db"}

EmptyRedis == [db \in Databases |-> EmptyMap]

\* a pipeline is the sequence of its staged SET commands
pipeline_set(pipeline, key, value) == Append(pipeline, [key |-> key, value |-> value])

RECURSIVE execute_pipeline(_, _)
execute_pipeline(db, pipeline) ==
  IF pipeline = <<>> THEN db
  ELSE execute_pipeline(Put(db, Head(pipeline).key, Head(pipeline).value),
                        Tail(pipeline))

\* ---------------------------------------------------------------- ontology
\* toolkit.get_ancestors + get_element(..)["class_uri"]: the provider's
\* answer; for biolink:Cell it leaves the type itself out
toolkit_get_ancestors(input_type) ==
  CASE input_type = Disease -> <<Disease, NamedThing>>
    [] input_type = Cell -> <<NamedThing>>
    [] OTHER -> <<>>

\* a get_ancestors that passes the provider's answer on as it is
get_ancestors_as_provider(ancestor_map, input_type) ==
  IF input_type \in DOMAIN ancestor_map
  THEN <<ancestor_map[input_type], ancestor_map>>
  ELSE LET a == toolkit_get_ancestors(input_type)
       IN <<a, Put(ancestor_map, input_type, a)>>

\* get_ancestors: memoised in ancestor_map; returns <<ancs, ancestor_map'>>
get_ancestors(ancestor_map, input_type) ==
  IF input_type \in DOMAIN ancestor_map
  THEN <<ancestor_map[input_type], ancestor_map>>
  ELSE LET a == toolkit_get_ancestors(input_type)
           ancs == IF input_type \notin Range(a) THEN <<input_type>> \o a ELSE a
       IN <<ancs, Put(ancestor_map, input_type, ancs)>>

\* ---------------------------------------------------------------- load_compendium
\* semantic_types is the list returned by get_ancestors, and a Python list
\* has no attribute `add`: `semantic_types.add(..)` raises AttributeError
list_has_add == FALSE

NoException == "none"

\* `for equivalent_id in instance["identifiers"]`, from the k-th entry on
RECURSIVE for_equivalent_id(_, _, _, _, _)
for_equivalent_id(st, ids, k, semantic_type, identifier) ==
  IF k > Len(ids) THEN st
  ELSE
    LET source_prefix == split_colon_0(ids[k].i)
        counts == st.source_prefixes[semantic_type]
        counted == IF source_prefix \notin DOMAIN counts
                   THEN Put(counts, source_prefix, 1)
                   ELSE Put(counts, source_prefix, counts[source_prefix] + 1)
        equivalent_id == ids[k].i
    IN for_equivalent_id(
         [st EXCEPT
            !.source_prefixes = Put(@, semantic_type, counted),
            !.term2id_pipeline = pipeline_set(@, upper(equivalent_id), identifier)],
         ids, k + 1, semantic_type, identifier)

\* `for semantic_type in semantic_types`, from the j-th type on
RECURSIVE for_semantic_type(_, _, _, _, _)
for_semantic_type(st, semantic_types, j, instance, identifier) ==
  IF j > Len(semantic_types) THEN st
  ELSE IF ~list_has_add THEN [st EXCEPT !.exc = "AttributeError"]
  ELSE
    LET semantic_type == semantic_types[j]
        st1 == IF semantic_type \notin DOMAIN st.source_prefixes
               THEN [st EXCEPT !.source_prefixes = Put(@, semantic_type, EmptyMap)]
               ELSE st
        st2 == for_equivalent_id(st1, instance.identifiers, 1, semantic_type, identifier)
        st3 == [st2 EXCEPT
                  !.id2eqids_pipeline =
                     pipeline_set(@, identifier, json_dumps(instance.identifiers)),
                  !.id2type_pipeline = pipeline_set(@, identifier, instance.type)]
        st4 == IF instance.ic # None
               THEN [st3 EXCEPT !.info_content_pipeline =
                                   pipeline_set(@, identifier, instance.ic[1])]
               ELSE st3
    IN for_semantic_type(st4, semantic_types, j + 1, instance, identifier)

\* a loop body that passes over a line that is not JSON
process_line_skips_bad_line(st, line) == st

\* the body of `for line in compendium` up to the block flush
process_line(st, line) ==
  IF json_loads_raises(line) THEN [st EXCEPT !.exc = "JSONDecodeError"]
  ELSE
    LET instance == json_loads(line)
        identifier == instance.identifiers[1].i
        anc == get_ancestors(st.ancestor_map, instance.type)
    IN for_semantic_type([st EXCEPT !.ancestor_map = anc[2]],
                         anc[1], 1, instance, identifier)

\* the four execute_pipeline calls of one flush
flush(store, st) ==
  [store EXCEPT
     !["eq_id_to_id_db"] = execute_pipeline(@, st.term2id_pipeline),
     !["id_to_eqids_db"] = execute_pipeline(@, st.id2eqids_pipeline),
     !["id_to_type_db"] = execute_pipeline(@, st.id2type_pipeline),
     !["info_content_db"] = execute_pipeline(@, st.info_content_pipeline)]

new_pipelines(st) ==
  [st EXCEPT !.term2id_pipeline = <<>>, !.id2eqids_pipeline = <<>>,
             !.id2type_pipeline = <<>>, !.info_content_pipeline = <<>>]

Locals0 ==
  [ancestor_map |-> EmptyMap, source_prefixes |-> EmptyMap,
   term2id_pipeline |-> <<>>, id2eqids_pipeline |-> <<>>,
   id2type_pipeline |-> <<>>, info_content_pipeline |-> <<>>,
   exc |-> NoException]

\* ---------------------------------------------------------------- resolution
\* an mget that looks every key up without the membership test
mget_raises_on_missing(data, args) == \E k \in 1..Len(args) : args[k] \notin DOMAIN data

\* an mget that leaves the missing keys out of its answer
mget_skips_missing(data, args) ==
  LET hits == SelectSeq(args, LAMBDA x : x \in DOMAIN data)
  IN [k \in 1..Len(hits) |-> Some(data[hits[k]])]

\* MockRedis.mget: one value per key, aligned by position, None for a
\* missing key; it never raises
mget_raises(data, args) == FALSE

mget(data, args) == [k \in 1..Len(args) |-> Get(data, args[k])]

\* zip(a, b): pairs up to the shorter length
zip(a, b) ==
  LET n == IF Len(a) < Len(b) THEN Len(a) ELSE Len(b)
  IN [k \in 1..n |-> [key |-> a[k], value |-> b[k]]]

\* dict(pairs): an insertion-ordered mapping, kept as the sequence of its
\* items; a repeated key keeps its first position and takes the last value
dict_keys(d) == [k \in 1..Len(d) |-> d[k].key]

RECURSIVE dict(_)
dict(pairs) ==
  IF pairs = <<>> THEN <<>>
  ELSE LET init == dict(SubSeq(pairs, 1, Len(pairs) - 1))
           last == pairs[Len(pairs)]
       IN IF last.key \in Range(dict_keys(init))
          THEN [k \in 1..Len(init) |->
                  IF init[k].key = last.key THEN last ELSE init[k]]
          ELSE Append(init, last)

dict_get(d, key) ==
  IF key \in Range(dict_keys(d))
  THEN (CHOOSE e \in Range(d) : e.key = key).value
  ELSE None

\* ResolvedNode = {id: {identifier, label}, equivalent_identifiers, type}
create_node(canonical_id, dereference_ids, dereference_types) ==
  IF canonical_id = None THEN None
  ELSE
    LET eqids == dict_get(dereference_ids, canonical_id[1])
        type == dict_get(dereference_types, canonical_id[1])
    IN IF eqids = None \/ type = None THEN None
       ELSE
         LET members == json_loads(eqids[1])
         IN Some([id |-> [identifier |-> canonical_id[1], label |-> members[1].l],
                  equivalent_identifiers |->
                     [k \in 1..Len(members) |->
                        [identifier |-> members[k].i, label |-> members[k].l]],
                  type |-> <<type[1]>>])

Ok(body) == [status_code |-> 200, detail |-> "", body |-> body]
Failed(code, detail) == [status_code |-> code, detail |-> detail, body |-> <<>>]

\* normalizer.get_normalized_nodes: the response object of the tests, keyed
\* by the input curie
get_normalized_nodes(store, curies) ==
  LET upper_curies == [k \in 1..Len(curies) |-> upper(curies[k])]
  IN IF mget_raises(store["eq_id_to_id_db"], upper_curies)
     THEN Failed(500, "Internal Server Error")
     ELSE
       LET canonical_ids == mget(store["eq_id_to_id_db"], upper_curies)
           found == SelectSeq(canonical_ids, LAMBDA c : c # None)
           canonical_nonan == [k \in 1..Len(found) |-> found[k][1]]
           eqids == mget(store["id_to_eqids_db"], canonical_nonan)
           types == mget(store["id_to_type_db"], canonical_nonan)
           dereference_ids == dict(zip(canonical_nonan, eqids))
           dereference_types == dict(zip(canonical_nonan, types))
           pairs == zip(curies, canonical_ids)
       IN Ok(dict([k \in 1..Len(pairs) |->
                     [key |-> pairs[k].key,
                      value |-> create_node(pairs[k].value, dereference_ids,
                                            dereference_types)]]))

\* ---------------------------------------------------------------- server
\* GET /get_normalized_nodes: curie: List[str] = Query([]) accepts any
\* list, the empty one (the default) included
query_curie_valid(curie) == TRUE

\* POST /get_normalized_nodes: CurieList.curies is a required List[str]
\* without a length constraint; `body` is the "curies" member, None if absent
curie_list_valid(body) == body # None

\* every identifier a client may send
QueryCuries == {MONDO, doid, UNKNOWN}

CurieLists == SeqsUpTo(QueryCuries, MaxCuries)

\* ---------------------------------------------------------------- fixtures
\* the store content of the tests: upper-cased identifier -> canonical,
\* canonical -> equivalent identifiers, canonical -> type
fixture(instance) ==
  LET identifier == instance.identifiers[1].i
      ids == instance.identifiers
  IN [EmptyRedis EXCEPT
        !["eq_id_to_id_db"] =
           [key \in {upper(ids[k].i) : k \in 1..Len(ids)} |-> identifier],
        !["id_to_eqids_db"] = Put(@, identifier, json_dumps(ids)),
        !["id_to_type_db"] = Put(@, identifier, instance.type)]

FixtureStores == {EmptyRedis} \cup {fixture(r) : r \in Instances}

\* ---------------------------------------------------------------- prefix statistics
\* the database "curie_to_bl_type_db": the per-file records "file-<comp>",
\* the list "semantic_types", and one prefix-count text per semantic type
EmptyStats ==
  [file_records |-> EmptyMap, semantic_types |-> <<>>, prefix_counts |-> EmptyMap]

\* the iteration order of a dict keyed by semantic type
BiolinkTypes == <<Disease, Cell, NamedThing>>

dict_order(d) == SelectSeq(BiolinkTypes, LAMBDA t : t \in DOMAIN d)

\* every order in which the members of S can be listed
Orders(S) ==
  {s \in SeqsUpTo(S, Cardinality(S)) : Len(s) = Cardinality(S) /\ Range(s) = S}

\* a sum that keeps the count read last
add_count_overwrites(so_far, count) == count

\* a sum that keeps the count read first
add_count_keeps_first(so_far, count) == IF so_far = 0 THEN count ELSE so_far

\* sources_prefix[bl_type][curie_prefix] += count
add_count(so_far, count) == so_far + count

\* `for curie_prefix, count in curie_counts.items()`
add_curie_counts(totals, curie_counts) ==
  [p \in (DOMAIN totals) \cup (DOMAIN curie_counts) |->
     IF p \in DOMAIN curie_counts
     THEN add_count(IF p \in DOMAIN totals THEN totals[p] ELSE 0, curie_counts[p])
     ELSE totals[p]]

\* `for bl_type, curie_counts in prefix_counts.items()`
add_prefix_counts(sources_prefix, prefix_counts) ==
  [t \in (DOMAIN sources_prefix) \cup (DOMAIN prefix_counts) |->
     IF t \in DOMAIN prefix_counts
     THEN add_curie_counts(IF t \in DOMAIN sources_prefix
                           THEN sources_prefix[t] ELSE EmptyMap,
                           prefix_counts[t])
     ELSE sources_prefix[t]]

\* sums that go on from the counts already stored
stored_sources_prefix(db) ==
  [t \in DOMAIN db.prefix_counts |-> json_loads(db.prefix_counts[t])]

\* sources_prefix = {}
new_sources_prefix(db) == EmptyMap

\* `for meta_data_key, data in all_meta_data.items()`, in the order read
RECURSIVE sum_meta_data(_, _)
sum_meta_data(sources_prefix, all_meta_data) ==
  IF all_meta_data = <<>> THEN sources_prefix
  ELSE sum_meta_data(
         add_prefix_counts(sources_prefix, Head(all_meta_data).source_prefixes),
         Tail(all_meta_data))

\* json.loads of the records read; a record that is not JSON raises
meta_data_raises(db, meta_data_keys) ==
  \E k \in 1..Len(meta_data_keys) :
     json_loads_raises(db.file_records[meta_data_keys[k]])

all_meta_data(db, meta_data_keys) ==
  [k \in 1..Len(meta_data_keys) |-> json_loads(db.file_records[meta_data_keys[k]])]

\* LPUSH key v1 v2 ..: each value in turn goes to the head of the list
RECURSIVE lpush(_, _)
lpush(list, values) ==
  IF values = <<>> THEN list
  ELSE lpush(<<Head(values)>> \o list, Tail(values))

\* the commands staged on types_prefixes_pipeline: the lpush of every type,
\* then one set per type
staged_commands(sources_prefix) ==
  LET keys == dict_order(sources_prefix)
  IN (IF Len(keys) > 0
      THEN <<[op |-> "lpush", key |-> "semantic_types", value |-> keys]>>
      ELSE <<>>)
     \o [k \in 1..Len(keys) |->
           [op |-> "set", key |-> keys[k],
            value |-> json_dumps(sources_prefix[keys[k]])]]

apply_command(db, command) ==
  IF command.op = "lpush"
  THEN [db EXCEPT !.semantic_types = lpush(@, command.value)]
  ELSE [db EXCEPT !.prefix_counts = Put(@, command.key, command.value)]

\* the store after the first n commands of the pipeline took effect
RECURSIVE execute_commands(_, _, _)
execute_commands(db, commands, n) ==
  IF n = 0 \/ commands = <<>> THEN db
  ELSE execute_commands(apply_command(db, Head(commands)), Tail(commands), n - 1)

\* a merge that writes the sums of the records it could read before it
\* raises for the one it could not
merge_writes_before_raising(db, meta_data_keys, dry, n) ==
  LET readable == SelectSeq(meta_data_keys,
                            LAMBDA key : ~json_loads_raises(db.file_records[key]))
      sources_prefix == sum_meta_data(EmptyMap, all_meta_data(db, readable))
      commands == staged_commands(sources_prefix)
  IN IF meta_data_raises(db, meta_data_keys)
     THEN [db |-> execute_commands(db, commands, Len(commands)),
           result |-> "JSONDecodeError"]
     ELSE IF dry THEN [db |-> db, result |-> "True"]
     ELSE [db |-> execute_commands(db, commands, n),
           result |-> IF n >= Len(commands) THEN "True" ELSE "RedisError"]

\* merge_semantic_meta_data with the records read in the order of
\* meta_data_keys: the store it leaves and how it ends. The one pipeline of
\* writes is executed last; n is the number of its commands that take
\* effect before the store fails, if it fails
merge_outcome(db, meta_data_keys, dry, n) ==
  IF meta_data_raises(db, meta_data_keys)
  THEN [db |-> db, result |-> "JSONDecodeError"]
  ELSE
    LET sources_prefix ==
          sum_meta_data(new_sources_prefix(db), all_meta_data(db, meta_data_keys))
        commands == staged_commands(sources_prefix)
    IN IF dry THEN [db |-> db, result |-> "True"]
       ELSE [db |-> execute_commands(db, commands, n),
             result |-> IF n >= Len(commands) THEN "True" ELSE "RedisError"]

\* get_curie_prefixes: the stored prefix counts of the types asked for, of
\* every listed type when none is asked for; an unknown type has no entry
get_curie_prefixes(db, semantic_types) ==
  LET asked == IF semantic_types = {} THEN Range(db.semantic_types)
               ELSE semantic_types
  IN [t \in asked \cap (DOMAIN db.prefix_counts) |-> json_loads(db.prefix_counts[t])]

\* GET /get_semantic_types
get_semantic_types_handler(db) ==
  LET types == db.semantic_types
  IN IF types = <<>> THEN Failed(404, "No semantic types discovered.")
     ELSE Ok(types)

\* ---------------------------------------------------------------- load
\* the compendium files on disk, by file name
CompendiumFiles == {"a", "b", "bad", "empty"}

open(comp) ==
  CASE comp = "a" ->
         <<json_dumps([type |-> Disease, ic |-> None,
                       identifiers |-> <<Ident(MONDO), Ident(DOID)>>]),
           json_dumps([type |-> Cell, ic |-> Some("100"),
                       identifiers |-> <<Labelled(MONDO, "asthma"), Ident(doid)>>])>>
    [] comp = "b" ->
         <<json_dumps([type |-> Disease, ic |-> None,
                       identifiers |-> <<Labelled(doid, "flu"),
                                         Ident(<<"d", ":", "3">>)>>])>>
    [] comp = "bad" ->
         <<json_dumps([type |-> Disease, ic |-> None,
                       identifiers |-> <<Labelled(doid, "flu")>>]),
           Garbage>>
    [] OTHER -> <<>>

\* the number of lines the validation samples
ValidateSample == 5

\* validate_compendium: every sampled line parses and fits the schema
validate_compendium(comp) ==
  \A k \in 1..Len(open(comp)) :
     k <= ValidateSample => ~json_loads_raises(open(comp)[k])

\* f"file-{str(comp)}"
file_key(comp) == "file-" \o comp

\* `source_prefixes` is a local of load_compendium; load has no variable of
\* that name, and reading it raises NameError
source_prefixes_in_scope == FALSE

\* ---------------------------------------------------------------- state
VARIABLES
  redis,          \* the content of the redis databases
  pc,             \* load_compendium: "idle", "reading", "returned"
  compendium,     \* the lines of the file being loaded
  block_size,
  dry_run,
  line_counter,
  locals,         \* ancestor_map, source_prefixes, the four pipelines
  loaded,         \* what load_compendium returned
  request,        \* the last request to /get_normalized_nodes
  response,       \* and the response to it
  types_prefixes_redis,   \* the content of "curie_to_bl_type_db"
  run,            \* load: its position, its files, the file it is at, its end
  before_merge,   \* "curie_to_bl_type_db" when the last merge began
  merges,         \* runs of merge_semantic_meta_data so far
  redis_at_open,  \* the redis databases when load_compendium was entered
  kgx             \* NodeLoader.convert_to_kgx: its position, locals and files

vars == <<redis, pc, compendium, block_size, dry_run, line_counter, locals,
          loaded, request, response, types_prefixes_redis, run, before_merge,
          merges, redis_at_open, kgx>>

stats_vars == <<types_prefixes_redis, run, before_merge, merges>>

loader_vars == <<pc, compendium, block_size, dry_run, line_counter, locals, loaded,
                 redis_at_open>>

NoRequest == [method |-> "none", curies |-> None]

\* convert_to_kgx before it is called: nothing opened, nothing collected
NotConverting ==
  [pc |-> "idle", compendia |-> <<>>, comp |-> 0, line |-> 0, line_counter |-> 0,
   nodes |-> <<>>, edges |-> <<>>, first |-> TRUE,
   node_file |-> <<>>, edge_file |-> <<>>, ret_val |-> TRUE]

NotRunning == [pc |-> "idle", compendium_file |-> <<>>, comp |-> 0, result |-> "none"]

Init ==
  /\ redis \in FixtureStores
  /\ pc = "idle"
  /\ compendium = <<>>
  /\ block_size = 1
  /\ dry_run = FALSE
  /\ line_counter = 0
  /\ locals = Locals0
  /\ loaded = FALSE
  /\ request = NoRequest
  /\ response = Failed(0, "")
  /\ types_prefixes_redis = EmptyStats
  /\ run = NotRunning
  /\ before_merge = EmptyStats
  /\ merges = 0
  /\ redis_at_open = redis
  /\ kgx = NotConverting

\* load_compendium(compendium_filename, block_size, .., dry_run): entry, up to
\* the opening of the file
load_compendium_open ==
  /\ pc \in {"idle", "returned"}
  /\ \E file \in Files, b \in 1..MaxBlock, d \in BOOLEAN :
       /\ compendium' = file
       /\ block_size' = b
       /\ dry_run' = d
  /\ pc' = "reading"
  /\ line_counter' = 0
  /\ locals' = Locals0
  /\ loaded' = FALSE
  /\ redis_at_open' = redis
  /\ UNCHANGED <<redis, request, response, stats_vars, kgx>>

\* one pass of `for line in compendium`, the block flush included; an
\* exception leaves the loop and makes load_compendium return False
load_compendium_line ==
  /\ pc = "reading"
  /\ line_counter < Len(compendium)
  /\ line_counter' = line_counter + 1
  /\ LET st == process_line(locals, compendium[line_counter + 1])
     IN IF st.exc # NoException
        THEN /\ pc' = "returned"
             /\ loaded' = FALSE
             /\ locals' = st
             /\ UNCHANGED redis
        ELSE IF ~dry_run /\ line_counter' % block_size = 0
        THEN /\ redis' = flush(redis, st)
             /\ locals' = new_pipelines(st)
             /\ UNCHANGED <<pc, loaded>>
        ELSE /\ locals' = st
             /\ UNCHANGED <<redis, pc, loaded>>
  /\ UNCHANGED <<compendium, block_size, dry_run, request, response, stats_vars,
                 redis_at_open, kgx>>

\* end of file: the last flush, then return True
load_compendium_eof ==
  /\ pc = "reading"
  /\ line_counter = Len(compendium)
  /\ redis' = IF ~dry_run THEN flush(redis, locals) ELSE redis
  /\ pc' = "returned"
  /\ loaded' = TRUE
  /\ UNCHANGED <<compendium, block_size, dry_run, line_counter, locals,
                 request, response, stats_vars, redis_at_open, kgx>>

\* GET /get_normalized_nodes?curie=..&curie=..
get_normalized_node_handler_get ==
  /\ \E curie \in CurieLists :
       /\ request' = [method |-> "GET", curies |-> Some(curie)]
       /\ response' = IF query_curie_valid(curie)
                      THEN get_normalized_nodes(redis, curie)
                      ELSE Failed(422, "ensure this value has at least 1 items")
  /\ UNCHANGED <<redis, loader_vars, stats_vars, kgx>>

\* POST /get_normalized_nodes {"curies": [..]}
get_normalized_node_handler_post ==
  /\ \E body \in {None} \cup {Some(c) : c \in CurieLists} :
       /\ request' = [method |-> "POST", curies |-> body]
       /\ response' = IF curie_list_valid(body)
                      THEN get_normalized_nodes(redis, body[1])
                      ELSE Failed(422, "field required")
  /\ UNCHANGED <<redis, loader_vars, stats_vars, kgx>>

NextLoad ==
  \/ load_compendium_open
  \/ load_compendium_line
  \/ load_compendium_eof

NextServer ==
  \/ get_normalized_node_handler_get
  \/ get_normalized_node_handler_post

Next == NextLoad \/ NextServer

Spec == Init /\ [][Next]_vars

\* ingestion alone, and the read path alone over the stores of Init
SpecLoad == Init /\ [][NextLoad]_vars

SpecServer == Init /\ [][NextServer]_vars

\* ---------------------------------------------------------------- load, merge
\* what a file holds: its (record, member) pairs, the ancestor chain of a
\* record's type, the prefix of a member
member_pairs(file) ==
  UNION {{<<k, j>> : j \in 1..Len(json_loads(file[k]).identifiers)} :
           k \in 1..Len(file)}

chain(file, k) == Range(get_ancestors(EmptyMap, json_loads(file[k]).type)[1])

prefix_of(file, pair) ==
  split_colon_0(json_loads(file[pair[1]]).identifiers[pair[2]].i)

count_of(file, T, P) ==
  Cardinality({pair \in member_pairs(file) :
                 T \in chain(file, pair[1]) /\ prefix_of(file, pair) = P})

file_counts(file) ==
  [T \in UNION {chain(file, k) : k \in 1..Len(file)} |->
     [P \in {prefix_of(file, pair) :
               pair \in {q \in member_pairs(file) : T \in chain(file, q[1])}} |->
        count_of(file, T, P)]]

\* the per-file records other loads left in the database: the counts of a
\* file under its key or under another, or a text that is not JSON
FileRecordTexts ==
  {json_dumps([source_prefixes |-> file_counts(open(c))]) : c \in {"a", "b"}}
    \cup {Garbage}

\* what an earlier merge left: nothing, or a type and its counts
EarlierMerges ==
  {EmptyStats,
   [EmptyStats EXCEPT
      !.semantic_types = <<Cell>>,
      !.prefix_counts = Put(EmptyMap, Cell, json_dumps(Put(EmptyMap, <<"M">>, 7)))]}

StatsStores ==
  {[earlier EXCEPT !.file_records = m] :
     earlier \in EarlierMerges,
     m \in UNION {[S -> FileRecordTexts] : S \in SUBSET {file_key("a"), file_key("b")}}}

\* the stores the runs over the files on disk start from: an empty one, and
\* one with a record of file "a" and the counts merged from it
RunStores ==
  {EmptyStats,
   [semantic_types |-> <<Cell>>,
    prefix_counts |-> Put(EmptyMap, Cell, json_dumps(Put(EmptyMap, <<"M">>, 7))),
    file_records |->
      Put(EmptyMap, file_key("a"),
          json_dumps([source_prefixes |-> Put(EmptyMap, Cell, Put(EmptyMap, <<"M">>, 7))]))]}

InitOver(stores) ==
  /\ redis = EmptyRedis
  /\ pc = "idle"
  /\ compendium = <<>>
  /\ block_size = 1
  /\ dry_run = FALSE
  /\ line_counter = 0
  /\ locals = Locals0
  /\ loaded = FALSE
  /\ request = NoRequest
  /\ response = Failed(0, "")
  /\ types_prefixes_redis \in stores
  /\ run = NotRunning
  /\ before_merge \in {types_prefixes_redis}
  /\ merges = 0
  /\ redis_at_open = redis
  /\ kgx = NotConverting

InitStats == InitOver(StatsStores)

InitRun == InitOver(RunStores)

\* load(compendium_file, block_size, dry_run, ..): the validation of every
\* file; one invalid file makes load return False
load_entry(files) ==
  IF \E k \in 1..Len(files) : ~validate_compendium(files[k])
  THEN [pc |-> "done", compendium_file |-> files, comp |-> 0, result |-> "False"]
  ELSE [pc |-> IF files = <<>> THEN "merge" ELSE "load_compendium",
        compendium_file |-> files, comp |-> 1, result |-> "none"]

\* load is called with a list of files
load_validate ==
  /\ run.pc \in {"idle", "done"}
  /\ merges < MaxMerges
  /\ \E files \in SeqsUpTo(CompendiumFiles, MaxFiles), b \in 1..MaxBlock,
        d \in BOOLEAN :
       /\ block_size' = b
       /\ dry_run' = d
       /\ run' = load_entry(files)
  /\ UNCHANGED <<redis, pc, compendium, line_counter, locals, loaded, request,
                 response, types_prefixes_redis, before_merge, merges,
                 redis_at_open, kgx>>

\* load is called without a --compendium-file: nothing to validate or to
\* load, the merge is all it does
load_no_files ==
  /\ run.pc \in {"idle", "done"}
  /\ merges < MaxMerges
  /\ \E b \in 1..MaxBlock, d \in BOOLEAN :
       /\ block_size' = b
       /\ dry_run' = d
       /\ run' = load_entry(<<>>)
  /\ UNCHANGED <<redis, pc, compendium, line_counter, locals, loaded, request,
                 response, types_prefixes_redis, before_merge, merges,
                 redis_at_open, kgx>>

\* `loaded = await load_compendium(comp, block_size, .., dry_run)`: the call
load_call_load_compendium ==
  /\ run.pc = "load_compendium"
  /\ compendium' = open(run.compendium_file[run.comp])
  /\ pc' = "reading"
  /\ line_counter' = 0
  /\ locals' = Locals0
  /\ loaded' = FALSE
  /\ run' = [run EXCEPT !.pc = "await"]
  /\ redis_at_open' = redis
  /\ UNCHANGED <<redis, block_size, dry_run, request, response,
                 types_prefixes_redis, before_merge, merges, kgx>>

\* after load_compendium returned: the per-file record is staged and, unless
\* dry_run, written; then the next file, or the merge after the last one
load_file_record ==
  /\ run.pc = "await"
  /\ pc = "returned"
  /\ IF ~source_prefixes_in_scope
     THEN /\ run' = [run EXCEPT !.pc = "done", !.result = "NameError"]
          /\ UNCHANGED types_prefixes_redis
     ELSE /\ types_prefixes_redis' =
               IF ~dry_run
               THEN [types_prefixes_redis EXCEPT
                       !.file_records =
                          Put(@, file_key(run.compendium_file[run.comp]),
                              json_dumps([source_prefixes |-> locals.source_prefixes]))]
               ELSE types_prefixes_redis
          /\ run' = IF run.comp < Len(run.compendium_file)
                    THEN [run EXCEPT !.pc = "load_compendium", !.comp = @ + 1]
                    ELSE [run EXCEPT !.pc = "merge"]
  /\ UNCHANGED <<redis, loader_vars, request, response, before_merge, merges, kgx>>

\* merge_semantic_meta_data(connection_factory, dry_run): the records are
\* read in the order keys("file-*") lists them; the one pipeline of writes
\* is executed at the end, and may fail after some of its commands
merge_semantic_meta_data ==
  /\ run.pc = "merge"
  /\ merges' = merges + 1
  /\ before_merge' = types_prefixes_redis
  /\ \E meta_data_keys \in Orders(DOMAIN types_prefixes_redis.file_records),
        n \in 0..(Len(BiolinkTypes) + 1) :
       LET outcome == merge_outcome(types_prefixes_redis, meta_data_keys, dry_run, n)
       IN /\ types_prefixes_redis' = outcome.db
          /\ run' = [run EXCEPT !.pc = "done", !.result = outcome.result]
  /\ UNCHANGED <<redis, loader_vars, request, response, kgx>>

NextRun ==
  \/ load_validate
  \/ load_call_load_compendium
  \/ load_compendium_line
  \/ load_compendium_eof
  \/ load_file_record
  \/ merge_semantic_meta_data

\* runs of load over the files on disk
SpecRun == InitRun /\ [][NextRun]_vars

NextMerge ==
  \/ load_no_files
  \/ merge_semantic_meta_data

\* merges of the records other loads left
SpecMerge == InitStats /\ [][NextMerge]_vars

\* ---------------------------------------------------------------- ingestion claims
\* the file that load_compendium has just gone through
Returned == pc = "returned"

FileValid == \A k \in 1..Len(compendium) : ~json_loads_raises(compendium[k])

record(k) == json_loads(compendium[k])
canonical(k) == record(k).identifiers[1].i
members(k) == record(k).identifiers
Records == 1..Len(compendium)

\* the spellings of an identifier a client may use
Variants(c) == {c, upper(c), lower(c)}

\* no identifier is a member of two classes with different canonical identifiers
ClassesDisjoint ==
  \A k1, k2 \in Records :
    \A j1 \in 1..Len(members(k1)), j2 \in 1..Len(members(k2)) :
      upper(members(k1)[j1].i) = upper(members(k2)[j2].i)
        => canonical(k1) = canonical(k2)

\* the last record of the file with the canonical identifier of record k
IsLastOfCanonical(k) ==
  \A k2 \in Records : k2 > k => canonical(k2) # canonical(k)

IngestedValidFile == Returned /\ ~dry_run /\ FileValid /\ compendium # <<>>

\* the node the read path returns for one identifier
resolve1(q) ==
  LET r == get_normalized_nodes(redis, <<q>>)
  IN IF r.status_code = 200 /\ Len(r.body) = 1 THEN r.body[1].value ELSE None

\* C1: after a non-dry-run ingestion of a valid file has ended, resolving any
\* member identifier of an ingested class, in any letter case, returns a
\* non-null node whose id.identifier is the first member of the class.
C1_ResolveGivesFirstMember ==
  (IngestedValidFile /\ ClassesDisjoint) =>
    \A k \in Records : \A j \in 1..Len(members(k)) :
      \A q \in Variants(members(k)[j].i) :
        /\ resolve1(q) # None
        /\ resolve1(q)[1].id.identifier = canonical(k)

\* C5: for every ingested class, the equivalent_identifiers of the resolved
\* node are the member identifiers of the ingested record, in its order.
C5_EquivalentIdentifiersInOrder ==
  (IngestedValidFile /\ ClassesDisjoint) =>
    \A k \in Records :
      IsLastOfCanonical(k) =>
        /\ resolve1(canonical(k)) # None
        /\ LET eq == resolve1(canonical(k))[1].equivalent_identifiers
           IN [n \in 1..Len(eq) |-> eq[n].identifier]
                = [n \in 1..Len(members(k)) |-> members(k)[n].i]

\* C7: after a non-dry-run ingestion of a file has ended, every identifier of
\* every member list of the file has a term-to-canonical entry.
C7_EveryMemberHasTermEntry ==
  IngestedValidFile =>
    \A k \in Records : \A j \in 1..Len(members(k)) :
      upper(members(k)[j].i) \in DOMAIN redis["eq_id_to_id_db"]

\* C8: for each ingested class there are two term-to-canonical entries per
\* member, one keyed by the identifier as written and one by its upper-cased
\* form, both mapping to the canonical identifier.
C8_RawAndUpperKeys ==
  (IngestedValidFile /\ ClassesDisjoint) =>
    \A k \in Records : \A j \in 1..Len(members(k)) :
      /\ Get(redis["eq_id_to_id_db"], members(k)[j].i) = Some(canonical(k))
      /\ Get(redis["eq_id_to_id_db"], upper(members(k)[j].i)) = Some(canonical(k))

\* C9: when a canonical identifier appears in a later record again, its stored
\* leaf type and equivalence list are those of the later record only.
C9_LastRecordWins ==
  IngestedValidFile =>
    \A k1, k2 \in Records :
      (k1 < k2 /\ canonical(k1) = canonical(k2) /\ IsLastOfCanonical(k2)) =>
        /\ Get(redis["id_to_eqids_db"], canonical(k2)) = Some(json_dumps(members(k2)))
        /\ Get(redis["id_to_type_db"], canonical(k2)) = Some(record(k2).type)

\* the writes of record k are in the store (the keys of all four namespaces)
Applied(k) ==
  /\ \A j \in 1..Len(members(k)) :
       upper(members(k)[j].i) \in DOMAIN redis["eq_id_to_id_db"]
  /\ canonical(k) \in DOMAIN redis["id_to_eqids_db"]
  /\ canonical(k) \in DOMAIN redis["id_to_type_db"]
  /\ record(k).ic # None => canonical(k) \in DOMAIN redis["info_content_db"]

\* C10: a non-dry-run ingestion with block size N flushes after every N-th
\* record and at end of file: when the ingestion of a file of L records has
\* ended, the writes of all L records are applied, for every L and N.
C10_AllRecordsFlushed ==
  IngestedValidFile => \A k \in Records : Applied(k)

\* ---------------------------------------------------------------- read-path claims
Answered == request.method # "none"
HasCuries == request.curies # None
curies == request.curies[1]
body == response.body

term2id == redis["eq_id_to_id_db"]

\* identifier x is known to the store, under canonical identifier c
resolves(x, c) ==
  \E key \in DOMAIN term2id : lower(key) = lower(x) /\ term2id[key] = c

known(x) == \E key \in DOMAIN term2id : lower(key) = lower(x)

first_index(seq, x) == CHOOSE k \in 1..Len(seq) : seq[k] = x /\ \A j \in 1..(k - 1) : seq[j] # x

C3_UnknownIsNull ==
  (Answered /\ HasCuries) =>
    /\ response.status_code = 200
    /\ \A n \in 1..Len(curies) :
         ~known(curies[n]) =>
           \E a \in 1..Len(body) : body[a].key = curies[n] /\ body[a].value = None
    /\ (curies # <<>> /\ \A n \in 1..Len(curies) : ~known(curies[n])) =>
         /\ body # <<>>
         /\ \A a \in 1..Len(body) : body[a].value = None

C3_Witness ==
  /\ Answered /\ HasCuries
  /\ Len(curies) = 2 /\ curies[1] # curies[2]
  /\ ~known(curies[1]) /\ ~known(curies[2])
  /\ response.status_code = 200
  /\ Len(body) = 2 /\ body[1].value = None /\ body[2].value = None

C6_EmptyListRejected ==
  (Answered /\ request.curies = Some(<<>>)) =>
    /\ response.status_code = 422
    /\ response.detail = "ensure this value has at least 1 items"

\* ---------------------------------------------------------------- statistics claims
\* C11: when load_compendium has gone through a valid file, the count it
\* holds for a type T and a prefix P is the number of (record, member) pairs
\* of the file with T in the ancestor chain of the record's type and P the
\* part of the member before its first ':'.
C11_CountsUnderEveryAncestor ==
  (Returned /\ FileValid) => locals.source_prefixes = file_counts(compendium)

\* the per-file records in the database and what they hold
FileKeys == DOMAIN types_prefixes_redis.file_records

partial(key) == json_loads(types_prefixes_redis.file_records[key]).source_prefixes

partial_count(key, T, X) ==
  IF T \in DOMAIN partial(key)
  THEN IF X \in DOMAIN partial(key)[T] THEN partial(key)[T][X] ELSE 0
  ELSE 0

RECURSIVE SumOfPartials(_, _, _)
SumOfPartials(keys, T, X) ==
  IF keys = {} THEN 0
  ELSE LET key == CHOOSE k \in keys : TRUE
       IN partial_count(key, T, X) + SumOfPartials(keys \ {key}, T, X)

PartialTypes == UNION {DOMAIN partial(key) : key \in FileKeys}

PartialPrefixes(T) ==
  UNION {DOMAIN partial(key)[T] : key \in {k \in FileKeys : T \in DOMAIN partial(k)}}

\* the last merge was not a dry run and went through
MergedOk == run.pc = "done" /\ run.result = "True" /\ ~dry_run /\ merges > 0

\* C12: after a merge that went through, for every type T and prefix X of
\* the per-file records the global count stored for (T, X) is the sum of the
\* counts the records hold for (T, X), no other prefix is stored for T, and
\* the pivot for {T} returns that sum.
C12_GlobalCountIsSumOfPartials ==
  MergedOk =>
    \A T \in PartialTypes :
      /\ T \in DOMAIN types_prefixes_redis.prefix_counts
      /\ DOMAIN json_loads(types_prefixes_redis.prefix_counts[T]) = PartialPrefixes(T)
      /\ \A X \in PartialPrefixes(T) :
           /\ json_loads(types_prefixes_redis.prefix_counts[T])[X]
                = SumOfPartials(FileKeys, T, X)
           /\ get_curie_prefixes(types_prefixes_redis, {T})[T][X]
                = SumOfPartials(FileKeys, T, X)

\* two records count the same prefix under the same type, and the pivot
\* returns the two counts added
C12_Witness ==
  /\ MergedOk
  /\ \E T \in PartialTypes : \E X \in PartialPrefixes(T) :
       \E k1, k2 \in FileKeys :
         /\ k1 # k2
         /\ partial_count(k1, T, X) > 0
         /\ partial_count(k2, T, X) > 0
         /\ get_curie_prefixes(types_prefixes_redis, {T})[T][X]
              = partial_count(k1, T, X) + partial_count(k2, T, X)

\* every per-file record is JSON
AllReadable ==
  \A key \in FileKeys : ~json_loads_raises(types_prefixes_redis.file_records[key])

\* the store is as a merge of the present records leaves it
SumsStored ==
  /\ AllReadable
  /\ \A T \in PartialTypes :
       /\ T \in DOMAIN types_prefixes_redis.prefix_counts
       /\ json_loads(types_prefixes_redis.prefix_counts[T])
            = [X \in PartialPrefixes(T) |-> SumOfPartials(FileKeys, T, X)]

\* C13: a merge that goes through on a store that holds the sums of the
\* present records already (a second run, with no ingestion in between) leaves
\* every stored prefix count, and every answer of the pivot, as it was: no
\* count is doubled.
C13_MergeIsIdempotent ==
  [][(SumsStored /\ run.pc = "merge" /\ run'.result = "True") =>
       /\ types_prefixes_redis'.prefix_counts = types_prefixes_redis.prefix_counts
       /\ \A S \in SUBSET Range(BiolinkTypes) :
            get_curie_prefixes(types_prefixes_redis', S)
              = get_curie_prefixes(types_prefixes_redis, S)]_vars

\* a second merge has written over the sums of the first, and they are the same
C13_Witness ==
  /\ MergedOk
  /\ merges >= 2
  /\ PartialTypes # {}
  /\ SumsStored
  /\ before_merge.prefix_counts = types_prefixes_redis.prefix_counts
  /\ before_merge.semantic_types # types_prefixes_redis.semantic_types

\* the prefix counts a merge stores when it reads the records in this order
counts_stored(meta_data_keys) ==
  LET sources_prefix ==
        sum_meta_data(new_sources_prefix(types_prefixes_redis),
                      all_meta_data(types_prefixes_redis, meta_data_keys))
  IN [T \in DOMAIN sources_prefix |-> json_dumps(sources_prefix[T])]

\* C14: the counts a merge has stored are those of a merge that reads the
\* per-file records in any other order; the records are kept by file name, so
\* the order in which the files were ingested is not in the store at all.
C14_MergeOrderIndependent ==
  MergedOk =>
    \A meta_data_keys \in Orders(FileKeys) :
      \A T \in DOMAIN counts_stored(meta_data_keys) :
        /\ T \in DOMAIN types_prefixes_redis.prefix_counts
        /\ types_prefixes_redis.prefix_counts[T] = counts_stored(meta_data_keys)[T]

\* two records with different counts for the same type and prefix were merged
C14_Witness ==
  /\ MergedOk
  /\ Cardinality(Orders(FileKeys)) > 1
  /\ \E T \in PartialTypes : \E X \in PartialPrefixes(T) :
       \E k1, k2 \in FileKeys :
         /\ partial_count(k1, T, X) > 0
         /\ partial_count(k2, T, X) > partial_count(k1, T, X)
         /\ X \in DOMAIN json_loads(types_prefixes_redis.prefix_counts[T])

\* ---------------------------------------------------------------- claims on runs of load
\* a run of load has ended
RunOver == run.pc = "done"

\* the per-file record of what the file on disk holds
record_of(comp) == json_dumps([source_prefixes |-> file_counts(open(comp))])

\* the per-file record of this file is in the database
Persisted(comp) ==
  /\ file_key(comp) \in FileKeys
  /\ types_prefixes_redis.file_records[file_key(comp)] = record_of(comp)

\* C15: after a run of load that is given a valid file once, or the same file
\* twice, the record of the file holds the counts of the file once, the merge
\* has been reached, and when it went through the global counts are the sums
\* of the records: the same in both cases.
C15_ReingestOverwrites ==
  (/\ RunOver
   /\ ~dry_run
   /\ \E comp \in CompendiumFiles :
        /\ validate_compendium(comp)
        /\ run.compendium_file \in {<<comp>>, <<comp, comp>>})
  => /\ Persisted(run.compendium_file[1])
     /\ run.result \in {"True", "RedisError"}
     /\ run.result = "True" => SumsStored

\* C16: after a run of load over two different valid files, the record of
\* each file holds the counts of that file alone, whichever file was loaded
\* before it in the run.
C16_RecordHoldsOwnCountsOnly ==
  (/\ RunOver
   /\ ~dry_run
   /\ Len(run.compendium_file) = 2
   /\ run.compendium_file[1] # run.compendium_file[2]
   /\ \A k \in 1..2 : validate_compendium(run.compendium_file[k]))
  => \A k \in 1..2 : Persisted(run.compendium_file[k])

\* C17: after a run of load over a file that fails validation and a file that
\* passes it, load has not given up the run: the record of the valid file is
\* persisted, the merge has been reached, and when it went through the global
\* counts are the sums of the records.
C17_InvalidFileAbortsOnlyItself ==
  (/\ RunOver
   /\ ~dry_run
   /\ \E k \in 1..Len(run.compendium_file) :
        ~validate_compendium(run.compendium_file[k])
   /\ \E k \in 1..Len(run.compendium_file) :
        validate_compendium(run.compendium_file[k]))
  => /\ run.result \in {"True", "RedisError"}
     /\ \A k \in 1..Len(run.compendium_file) :
          validate_compendium(run.compendium_file[k])
            => Persisted(run.compendium_file[k])
     /\ run.result = "True" => SumsStored

\* ---------------------------------------------------------------- claims on lines
BadLine(k) == json_loads_raises(compendium[k])

FirstBadLine ==
  CHOOSE k \in 1..Len(compendium) : BadLine(k) /\ \A j \in 1..(k - 1) : ~BadLine(j)

\* C18: the pass of the loop that meets a line that is not JSON ends
\* load_compendium with False and stages and writes nothing; and when
\* load_compendium has returned from a file with such a line, it returned
\* False and has read no line after the first such line.
C18_ParseFailureAbortsFile ==
  /\ [][(/\ pc = "reading"
         /\ line_counter < Len(compendium)
         /\ BadLine(line_counter + 1))
        => /\ pc' = "returned"
           /\ loaded' = FALSE
           /\ redis' = redis
           /\ locals'.term2id_pipeline = locals.term2id_pipeline
           /\ locals'.id2eqids_pipeline = locals.id2eqids_pipeline
           /\ locals'.id2type_pipeline = locals.id2type_pipeline
           /\ locals'.info_content_pipeline = locals.info_content_pipeline]_vars
  /\ []((Returned /\ \E k \in 1..Len(compendium) : BadLine(k))
         => ~loaded /\ line_counter <= FirstBadLine)

\* load_compendium has returned at a line that is not JSON, with a record on
\* a later line
C18_Witness ==
  /\ Returned
  /\ locals.exc = "JSONDecodeError"
  /\ ~loaded
  /\ line_counter < Len(compendium)
  /\ \E k \in (line_counter + 1)..Len(compendium) : ~BadLine(k)

\* ---------------------------------------------------------------- claims on failed merges
\* the global aggregate: the per-type prefix counts and the list of types
aggregate(db) == <<db.prefix_counts, db.semantic_types>>

MergeFailed == RunOver /\ run.result \in {"JSONDecodeError", "RedisError"}

\* C19 as stated: when a merge has failed, the per-type prefix counts and the
\* list of semantic types are as they were when it began.
C19_FailedMergeLeavesAggregate ==
  MergeFailed => aggregate(types_prefixes_redis) = aggregate(before_merge)

\* C19, amended: a merge that fails while it reads and decodes the per-file
\* records leaves the whole database as it was when it began; a merge that
\* fails while its pipeline of writes is executed leaves the per-file records
\* as they were and, for each type, either the counts stored before or the
\* new sums.
C19_FailedReadLeavesAggregate ==
  /\ (RunOver /\ run.result = "JSONDecodeError")
       => types_prefixes_redis = before_merge
  /\ (RunOver /\ run.result = "RedisError")
       => /\ types_prefixes_redis.file_records = before_merge.file_records
          /\ \A T \in DOMAIN types_prefixes_redis.prefix_counts :
               \/ /\ T \in DOMAIN before_merge.prefix_counts
                  /\ types_prefixes_redis.prefix_counts[T] = before_merge.prefix_counts[T]
               \/ /\ T \in PartialTypes
                  /\ json_loads(types_prefixes_redis.prefix_counts[T])
                       = [X \in PartialPrefixes(T) |-> SumOfPartials(FileKeys, T, X)]

\* a merge has failed on a record that is not JSON, with a readable record
\* beside it and counts of an earlier merge in the database
C19_Witness ==
  /\ RunOver
  /\ run.result = "JSONDecodeError"
  /\ before_merge.prefix_counts # EmptyMap
  /\ \E key \in FileKeys :
       ~json_loads_raises(types_prefixes_redis.file_records[key])

\* C20: whenever GET /get_semantic_types answers with a list, no semantic
\* type is in the list twice.
C20_SemanticTypesDistinct ==
  LET answer == get_semantic_types_handler(types_prefixes_redis)
  IN answer.status_code = 200 =>
       \A i, j \in 1..Len(answer.body) :
         answer.body[i] = answer.body[j] => i = j

\* ---------------------------------------------------------------- claims on get_ancestors
\* C22: every sequence get_ancestors has returned in this load_compendium
\* begins with the type it was asked for, also when the provider's answer
\* leaves that type out; and a further call for the same type returns the
\* same sequence and leaves ancestor_map as it is.
C22_AncestorsLeafFirst ==
  \A t \in DOMAIN locals.ancestor_map :
    /\ Len(locals.ancestor_map[t]) >= 1
    /\ locals.ancestor_map[t][1] = t
    /\ get_ancestors(EmptyMap, t)[1] = locals.ancestor_map[t]
    /\ get_ancestors(locals.ancestor_map, t)
         = <<locals.ancestor_map[t], locals.ancestor_map>>

\* get_ancestors was asked for a type that the provider's answer leaves out
C22_Witness ==
  /\ Cell \in DOMAIN locals.ancestor_map
  /\ Cell \notin Range(toolkit_get_ancestors(Cell))
  /\ line_counter >= 1

\* ---------------------------------------------------------------- claims on stale counts
\* C25: after a merge that went through, every type that has prefix counts
\* in the store is a type of some present per-file record, and its stored
\* counts are the sums over the present records: a type that no record
\* holds any more has no counts left in the store.
C25_NoLeftoverCounts ==
  MergedOk =>
    \A T \in DOMAIN types_prefixes_redis.prefix_counts :
      /\ T \in PartialTypes
      /\ json_loads(types_prefixes_redis.prefix_counts[T])
           = [X \in PartialPrefixes(T) |-> SumOfPartials(FileKeys, T, X)]

\* ---------------------------------------------------------------- claims on failed files
\* C26: when load_compendium has returned False for a file of a run that is
\* not a dry run, load writes no per-file record (the records in the store
\* stay as they are) and goes on to the next file, or to the merge after the
\* last file.
C26_FailedFileLeavesNoRecord ==
  [][(run.pc = "await" /\ pc = "returned" /\ ~loaded /\ ~dry_run)
       => /\ types_prefixes_redis'.file_records = types_prefixes_redis.file_records
          /\ run'.pc \in {"load_compendium", "merge"}]_vars

\* ---------------------------------------------------------------- claims on aborted loads
\* the store with the writes of one record applied
record_applied(store, instance) ==
  LET identifier == instance.identifiers[1].i
      ids == instance.identifiers
  IN [store EXCEPT
        !["eq_id_to_id_db"] =
           [key \in (DOMAIN @) \cup {upper(ids[k].i) : k \in 1..Len(ids)} |->
              IF key \in {upper(ids[k].i) : k \in 1..Len(ids)}
              THEN identifier ELSE @[key]],
        !["id_to_eqids_db"] = Put(@, identifier, json_dumps(ids)),
        !["id_to_type_db"] = Put(@, identifier, instance.type),
        !["info_content_db"] =
           IF instance.ic # None THEN Put(@, identifier, instance.ic[1]) ELSE @]

\* the store with the writes of the first m records of the file applied
RECURSIVE records_applied(_, _, _)
records_applied(store, file, m) ==
  IF m = 0 THEN store
  ELSE record_applied(records_applied(store, file, m - 1), json_loads(file[m]))

\* C27: when a load_compendium that is not a dry run has returned from a
\* file whose first line that is not JSON is line k, the store holds the
\* writes of the first N * floor((k - 1) / N) records of the file on top of
\* what it held when the file was opened, N being the block size, and
\* nothing else: the blocks flushed before line k are applied, the records
\* staged since the last flush are not, and there was no flush at the end.
C27_AbortKeepsFlushedBlocks ==
  (Returned /\ ~dry_run /\ \E k \in 1..Len(compendium) : BadLine(k))
    => redis = records_applied(redis_at_open, compendium,
                               block_size * ((FirstBadLine - 1) \div block_size))

\* ---------------------------------------------------------------- convert_to_kgx
\* `if line_counter == 10000`: the write threshold, in lines (scaled down)
WriteThreshold == 2

\* the compendium files of the directory, named by their length
KgxFileNames == {"below", "at", "above", "invalid"}

\* a line of the old format: {"type": .., "equivalent_identifiers":
\* [{"identifier": .., "label": ..}, ..]}; the odd lines have two identifiers
kgx_instance(comp, i) ==
  [type |-> Disease,
   equivalent_identifiers |->
     IF i % 2 = 1
     THEN <<[identifier |-> <<comp, i, 1>>, label |-> Some("asthma")],
            [identifier |-> <<comp, i, 2>>, label |-> None]>>
     ELSE <<[identifier |-> <<comp, i, 1>>, label |-> None]>>]

kgx_open(comp) ==
  CASE comp = "below" ->
         [i \in 1..(WriteThreshold - 1) |-> json_dumps(kgx_instance(comp, i))]
    [] comp = "at" ->
         [i \in 1..WriteThreshold |-> json_dumps(kgx_instance(comp, i))]
    [] comp = "above" ->
         [i \in 1..(WriteThreshold + 1) |-> json_dumps(kgx_instance(comp, i))]
    [] OTHER -> <<Garbage>>

\* validate_compendia: the first lines of the file parse and fit the schema
validate_compendia(in_file) ==
  \A k \in 1..Len(kgx_open(in_file)) :
     k <= ValidateSample => ~json_loads_raises(kgx_open(in_file)[k])

\* get_compendia: the data files of the configuration, each file once
get_compendia ==
  {s \in SeqsUpTo(KgxFileNames, MaxFiles) :
     \A j, k \in 1..Len(s) : j # k => s[j] # s[k]}

\* the nodes of one line, one per equivalent identifier
pass_nodes(instance) ==
  LET eq == instance.equivalent_identifiers
  IN [k \in 1..Len(eq) |->
        [id |-> eq[k].identifier,
         name |-> IF eq[k].label # None THEN eq[k].label[1] ELSE "",
         category |-> instance.type,
         equivalent_identifiers |-> [x \in 1..Len(eq) |-> eq[x].identifier]]]

\* itertools.combinations(s, 2), in its order
RECURSIVE combinations(_)
combinations(s) ==
  IF Len(s) < 2 THEN <<>>
  ELSE [k \in 1..(Len(s) - 1) |-> <<s[1], s[k + 1]>>] \o combinations(Tail(s))

\* hashlib.md5(..).hexdigest(): a digest is told apart by what was hashed
md5(record_id) == [md5 |-> record_id]

\* the same_as edges between the nodes of one line
pass_edges(nodes, comp) ==
  LET combos == combinations(nodes)
  IN [k \in 1..Len(combos) |->
        [id |-> md5(<<combos[k][1].id, "biolink:same_as", combos[k][2].id,
                      "NodeNormalizer:", comp>>),
         subject |-> combos[k][1].id,
         predicate |-> "biolink:same_as",
         object |-> combos[k][2].id,
         source_database |-> <<"NodeNormalizer:", comp>>]]

\* a text file is the sequence of its lines, a line the sequence of the JSON
\* texts on it; open(.., 'w') leaves one line with nothing on it
EmptyFile == <<<<>>>>

\* file.write(prefix + "\n".join([json.dumps(x) for x in items]))
file_write(file, prefix, items) ==
  LET base == IF prefix = "\n" THEN Append(file, <<>>) ELSE file
  IN IF items = <<>> THEN base
     ELSE [k \in 1..(Len(base) + Len(items) - 1) |->
             IF k < Len(base) THEN base[k]
             ELSE IF k = Len(base) THEN Append(base[k], json_dumps(items[1]))
             ELSE <<json_dumps(items[k - Len(base) + 1])>>]

\* nodes.clear() / edges.clear() after a write
clear(list) == <<>>

\* convert_to_kgx(outfile_name) is called: the two output files are opened
convert_to_kgx ==
  /\ kgx.pc \in {"idle", "done"}
  /\ \E compendia \in get_compendia :
       kgx' = [NotConverting EXCEPT
                 !.pc = "for_comp", !.compendia = compendia, !.comp = 1,
                 !.node_file = EmptyFile, !.edge_file = EmptyFile]
  /\ UNCHANGED <<redis, loader_vars, request, response, stats_vars>>

\* `for comp in compendia`: the next file is validated and opened, or
\* skipped; after the last file the function returns
convert_to_kgx_for_comp ==
  /\ kgx.pc = "for_comp"
  /\ kgx' = IF kgx.comp > Len(kgx.compendia)
            THEN [kgx EXCEPT !.pc = "done"]
            ELSE IF validate_compendia(kgx.compendia[kgx.comp])
            THEN [kgx EXCEPT !.pc = "for_line", !.line = 0]
            ELSE [kgx EXCEPT !.comp = @ + 1]
  /\ UNCHANGED <<redis, loader_vars, request, response, stats_vars>>

\* one pass of `for line in compendium`, the write at the threshold included
convert_to_kgx_for_line ==
  /\ kgx.pc = "for_line"
  /\ kgx.line < Len(kgx_open(kgx.compendia[kgx.comp]))
  /\ LET comp == kgx.compendia[kgx.comp]
         line == kgx_open(comp)[kgx.line + 1]
         counted == kgx.line_counter + 1
     IN IF json_loads_raises(line)
        THEN kgx' = [kgx EXCEPT !.pc = "done", !.line = @ + 1,
                                !.line_counter = counted, !.ret_val = FALSE]
        ELSE
          LET instance == json_loads(line)
              new_nodes == IF Len(instance.equivalent_identifiers) > 0
                           THEN pass_nodes(instance) ELSE <<>>
              nodes == kgx.nodes \o new_nodes
              edges == kgx.edges \o pass_edges(new_nodes, comp)
              prefix == IF kgx.first THEN "" ELSE "\n"
          IN IF counted = WriteThreshold
             THEN kgx' = [kgx EXCEPT
                            !.line = @ + 1,
                            !.first = FALSE,
                            !.line_counter = 0,
                            !.node_file = file_write(@, prefix, nodes),
                            !.edge_file = IF Len(edges) > 0
                                          THEN file_write(@, prefix, edges) ELSE @,
                            !.nodes = clear(nodes),
                            !.edges = clear(edges)]
             ELSE kgx' = [kgx EXCEPT !.line = @ + 1, !.line_counter = counted,
                                     !.nodes = nodes, !.edges = edges]
  /\ UNCHANGED <<redis, loader_vars, request, response, stats_vars>>

\* "pick up any remainders in the file": what is left in nodes and edges at
\* the end of the file is written, and stays in nodes and edges
convert_to_kgx_remainders ==
  /\ kgx.pc = "for_line"
  /\ kgx.line = Len(kgx_open(kgx.compendia[kgx.comp]))
  /\ kgx' = [kgx EXCEPT
               !.pc = "for_comp",
               !.comp = @ + 1,
               !.node_file = IF Len(kgx.nodes) > 0
                             THEN file_write(@, "\n", kgx.nodes) ELSE @,
               !.edge_file = IF Len(kgx.edges) > 0
                             THEN file_write(@, "\n", kgx.edges) ELSE @]
  /\ UNCHANGED <<redis, loader_vars, request, response, stats_vars>>

NextKgx ==
  \/ convert_to_kgx
  \/ convert_to_kgx_for_comp
  \/ convert_to_kgx_for_line
  \/ convert_to_kgx_remainders

\* conversions of the files of the directory
SpecKgx == Init /\ [][NextKgx]_vars

\* ---------------------------------------------------------------- claims on convert_to_kgx
\* all the JSON texts of a file, line after line
RECURSIVE texts(_)
texts(file) == IF file = <<>> THEN <<>> ELSE Head(file) \o texts(Tail(file))

\* how often a text is in a file
written(file, text) ==
  Cardinality({k \in 1..Len(texts(file)) : texts(file)[k] = text})

\* C28: when convert_to_kgx has returned True, every node and every edge of
\* every line of every valid compendium file is in its output file once,
\* whatever the number of files and their lengths (below, at and above the
\* write threshold).
C28_EveryRecordWrittenOnce ==
  (kgx.pc = "done" /\ kgx.ret_val) =>
    \A c \in 1..Len(kgx.compendia) :
      LET comp == kgx.compendia[c]
      IN validate_compendia(comp) =>
           \A i \in 1..Len(kgx_open(comp)) :
             LET nodes == pass_nodes(json_loads(kgx_open(comp)[i]))
                 edges == pass_edges(nodes, comp)
             IN /\ \A k \in 1..Len(nodes) :
                     written(kgx.node_file, json_dumps(nodes[k])) = 1
                /\ \A k \in 1..Len(edges) :
                     written(kgx.edge_file, json_dumps(edges[k])) = 1

====
